---- MODULE Spec2Model ----
(***************************************************************************)
(* The relational schema, its row-level security policies and its seed     *)
(* block (the migration script), together with the statements that         *)
(* authenticated identities issue against it.  The database engine's       *)
(* evaluation of the declarations (policy filtering, constraint checks,    *)
(* ON DELETE CASCADE) is written out so that the declarations decide what  *)
(* each statement does.                                                    *)
(***************************************************************************)
EXTENDS Integers, FiniteSets, Sequences, TLC

VARIABLES
  authUsers,   \* ids of the rows of auth.users (the identity provider)
  tables,      \* pg_tables of schema public: records [name, def]
  rls,         \* names of the tables with row level security enabled
  policies,    \* pg_policies of schema public: records [name, tbl, cmd]
  db,          \* table name -> set of rows
  clock,       \* the time now() returns to the next transaction
  last,        \* the last statement issued and what the caller observed
  attempt,     \* booking attempts in flight: identity -> its position
  about,       \* the About component: its stats, subscription and fetches
  nav          \* App's isMenuOpen and language, and what Navigation rendered

vars == <<authUsers, tables, rls, policies, db, clock, last, attempt, about, nav>>

----------------------------------------------------------------------------
(* Bounds and value domains *)

MaxSlots == 1
MaxBookings == 1
MaxAreas == 1
MaxClock == 2
MaxFetches == 2
MaxPending == 1

OneHour == 3600

\* A NULL slot_id (the column is nullable; generated slot ids start at 1).
NoSlot == 0

TestPatient == "e9dc96f3"
TestNurse == "f7dc96f3"
OtherUser == "a1b2c3d4"
Users == {TestPatient, TestNurse, OtherUser}

ServiceRole == "service_role"

Roles == {"patient", "nurse"}
SlotStatuses == {"available", "booked", "completed", "cancelled"}
BookingStatuses == {"pending", "confirmed", "completed", "cancelled"}
Genders == {"male", "female", "other"}

SchemaTables ==
  {"bookings", "nurse_slots", "nurse_service_areas", "nurse_profiles",
   "patient_profiles", "profiles", "service_areas"}

NoRows == [t \in SchemaTables |-> {}]

----------------------------------------------------------------------------
(* Row level security policies *)

\* The rows of table t that identity uid can read inside a policy subquery,
\* given the rows the policy "Users can view their own profile" lets through.
UsersCanViewTheirOwnProfile(uid, row, d) == uid = row.id

UsersCanUpdateTheirOwnProfileUsing(uid, row, d) == uid = row.id
UsersCanUpdateTheirOwnProfileCheck(uid, row, d) == uid = row.id
UsersCanInsertTheirOwnProfile(uid, row, d) == uid = row.id

PublicCanViewServiceAreas(uid, row, d) == TRUE

\* The policy written as the directory policies are: USING (true).
PatientsCanViewTheirOwnProfile_Open(uid, row, d) == TRUE
PatientsCanViewTheirOwnProfile(uid, row, d) == uid = row.id
PatientsCanInsertTheirOwnProfile(uid, row, d) == uid = row.id
PatientsCanUpdateTheirOwnProfileUsing(uid, row, d) == uid = row.id
PatientsCanUpdateTheirOwnProfileCheck(uid, row, d) == uid = row.id

PublicCanViewNurseProfiles(uid, row, d) == TRUE
NursesCanInsertTheirOwnProfile(uid, row, d) == uid = row.id
NursesCanUpdateTheirOwnProfileUsing(uid, row, d) == uid = row.id
NursesCanUpdateTheirOwnProfileCheck(uid, row, d) == uid = row.id

PublicCanViewNurseServiceAreas(uid, row, d) == TRUE
NursesCanManageTheirServiceAreasUsing(uid, row, d) == row.nurse_id = uid
NursesCanManageTheirServiceAreasCheck(uid, row, d) == row.nurse_id = uid

PublicCanViewAvailableSlots(uid, row, d) == TRUE
\* The FOR ALL policy with the USING of the SELECT policy above it.
NursesCanManageTheirSlotsUsing_Open(uid, row, d) == TRUE
NursesCanManageTheirSlotsUsing(uid, row, d) == row.nurse_id = uid
NursesCanManageTheirSlotsCheck(uid, row, d) == row.nurse_id = uid

UsersCanViewTheirBookings(uid, row, d) ==
  row.patient_id = uid \/ row.nurse_id = uid

\* The policy without its role subquery.
PatientsCanCreateBookings_NoRole(uid, row, d) == row.patient_id = uid

\* The subquery on profiles runs as the inserting identity, so it reads
\* profiles through that table's own SELECT policy.
PatientsCanCreateBookings(uid, row, d) ==
  /\ row.patient_id = uid
  /\ \E p \in d["profiles"] :
       /\ UsersCanViewTheirOwnProfile(uid, p, d)
       /\ p.id = uid
       /\ p.role = "patient"

UsersCanUpdateTheirBookingsUsing(uid, row, d) ==
  row.patient_id = uid \/ row.nurse_id = uid
\* The update policy checking nothing about the new row.
UsersCanUpdateTheirBookingsCheck_Any(uid, row, d) == TRUE
UsersCanUpdateTheirBookingsCheck(uid, row, d) ==
  row.patient_id = uid \/ row.nurse_id = uid

\* The CREATE POLICY statements of the script: name, table and command.
PolicyDefs ==
  { [name |-> "Users can view their own profile", tbl |-> "profiles", cmd |-> "SELECT"],
    [name |-> "Users can update their own profile", tbl |-> "profiles", cmd |-> "UPDATE"],
    [name |-> "Users can insert their own profile", tbl |-> "profiles", cmd |-> "INSERT"],
    [name |-> "Public can view service areas", tbl |-> "service_areas", cmd |-> "SELECT"],
    [name |-> "Patients can view their own profile", tbl |-> "patient_profiles", cmd |-> "SELECT"],
    [name |-> "Patients can insert their own profile", tbl |-> "patient_profiles", cmd |-> "INSERT"],
    [name |-> "Patients can update their own profile", tbl |-> "patient_profiles", cmd |-> "UPDATE"],
    [name |-> "Public can view nurse profiles", tbl |-> "nurse_profiles", cmd |-> "SELECT"],
    [name |-> "Nurses can insert their own profile", tbl |-> "nurse_profiles", cmd |-> "INSERT"],
    [name |-> "Nurses can update their own profile", tbl |-> "nurse_profiles", cmd |-> "UPDATE"],
    [name |-> "Public can view nurse service areas", tbl |-> "nurse_service_areas", cmd |-> "SELECT"],
    [name |-> "Nurses can manage their service areas", tbl |-> "nurse_service_areas", cmd |-> "ALL"],
    [name |-> "Public can view available slots", tbl |-> "nurse_slots", cmd |-> "SELECT"],
    [name |-> "Nurses can manage their slots", tbl |-> "nurse_slots", cmd |-> "ALL"],
    [name |-> "Users can view their bookings", tbl |-> "bookings", cmd |-> "SELECT"],
    [name |-> "Patients can create bookings", tbl |-> "bookings", cmd |-> "INSERT"],
    [name |-> "Users can update their bookings", tbl |-> "bookings", cmd |-> "UPDATE"] }

\* USING expression of a policy (TRUE for a policy that has none and for a
\* policy this script does not define).
PolicyUsing(name, uid, row, d) ==
  CASE name = "Users can view their own profile" -> UsersCanViewTheirOwnProfile(uid, row, d)
    [] name = "Users can update their own profile" -> UsersCanUpdateTheirOwnProfileUsing(uid, row, d)
    [] name = "Public can view service areas" -> PublicCanViewServiceAreas(uid, row, d)
    [] name = "Patients can view their own profile" -> PatientsCanViewTheirOwnProfile(uid, row, d)
    [] name = "Patients can update their own profile" -> PatientsCanUpdateTheirOwnProfileUsing(uid, row, d)
    [] name = "Public can view nurse profiles" -> PublicCanViewNurseProfiles(uid, row, d)
    [] name = "Nurses can update their own profile" -> NursesCanUpdateTheirOwnProfileUsing(uid, row, d)
    [] name = "Public can view nurse service areas" -> PublicCanViewNurseServiceAreas(uid, row, d)
    [] name = "Nurses can manage their service areas" -> NursesCanManageTheirServiceAreasUsing(uid, row, d)
    [] name = "Public can view available slots" -> PublicCanViewAvailableSlots(uid, row, d)
    [] name = "Nurses can manage their slots" -> NursesCanManageTheirSlotsUsing(uid, row, d)
    [] name = "Users can view their bookings" -> UsersCanViewTheirBookings(uid, row, d)
    [] name = "Users can update their bookings" -> UsersCanUpdateTheirBookingsUsing(uid, row, d)
    [] OTHER -> TRUE

\* WITH CHECK expression of a policy.
PolicyCheck(name, uid, row, d) ==
  CASE name = "Users can update their own profile" -> UsersCanUpdateTheirOwnProfileCheck(uid, row, d)
    [] name = "Users can insert their own profile" -> UsersCanInsertTheirOwnProfile(uid, row, d)
    [] name = "Patients can insert their own profile" -> PatientsCanInsertTheirOwnProfile(uid, row, d)
    [] name = "Patients can update their own profile" -> PatientsCanUpdateTheirOwnProfileCheck(uid, row, d)
    [] name = "Nurses can insert their own profile" -> NursesCanInsertTheirOwnProfile(uid, row, d)
    [] name = "Nurses can update their own profile" -> NursesCanUpdateTheirOwnProfileCheck(uid, row, d)
    [] name = "Nurses can manage their service areas" -> NursesCanManageTheirServiceAreasCheck(uid, row, d)
    [] name = "Nurses can manage their slots" -> NursesCanManageTheirSlotsCheck(uid, row, d)
    [] name = "Patients can create bookings" -> PatientsCanCreateBookings(uid, row, d)
    [] name = "Users can update their bookings" -> UsersCanUpdateTheirBookingsCheck(uid, row, d)
    [] OTHER -> TRUE

----------------------------------------------------------------------------
(* How the engine applies the declarations to one statement.  env carries   *)
(* the catalog and the session: [rls, policies, users, now].                *)

Env == [rls |-> rls, policies |-> policies, users |-> authUsers, now |-> clock]

\* Every table of schema public gets row level security enabled.
EnableRls(tbls) == {t.name : t \in tbls}

Applicable(env, t, cmd) ==
  {p \in env.policies : p.tbl = t /\ p.cmd \in {cmd, "ALL"}}

\* Permissive policies are OR-ed; a table with RLS enabled and no applicable
\* policy lets nothing through.  The service role bypasses RLS.
PassesUsing(env, t, cmd, uid, row, d) ==
  \/ uid = ServiceRole
  \/ t \notin env.rls
  \/ \E p \in Applicable(env, t, cmd) : PolicyUsing(p.name, uid, row, d)

PassesCheck(env, t, cmd, uid, row, d) ==
  \/ uid = ServiceRole
  \/ t \notin env.rls
  \/ \E p \in Applicable(env, t, cmd) : PolicyCheck(p.name, uid, row, d)

\* CHECK constraints of the CREATE TABLE statements.
RoleCheck(row) == row.role \in Roles
GenderCheck(row) == row.gender \in Genders
SlotStatusCheck(row) == row.status \in SlotStatuses
valid_slot_time(row) == row.end_time > row.start_time
\* The duration check with >= for =.
one_hour_slot_AtLeast(row) == row.end_time - row.start_time >= OneHour
one_hour_slot(row) == row.end_time - row.start_time = OneHour
BookingStatusCheck(row) == row.status \in BookingStatuses

CheckConstraints(t, row) ==
  CASE t = "profiles" -> RoleCheck(row)
    [] t = "patient_profiles" -> GenderCheck(row)
    [] t = "nurse_slots" ->
         SlotStatusCheck(row) /\ valid_slot_time(row) /\ one_hour_slot(row)
    [] t = "bookings" -> BookingStatusCheck(row)
    [] OTHER -> TRUE

\* PRIMARY KEY and UNIQUE constraints: would row collide with a row of rows?
UniqueViolation(t, row, rows) ==
  \/ \E r \in rows : r.id = row.id
  \/ /\ t = "nurse_service_areas"
     /\ \E r \in rows : r.nurse_id = row.nurse_id /\ r.pincode = row.pincode

\* The REFERENCES clauses with bookings.slot_id left a plain uuid column.
ForeignKeys_NoSlotRef ==
  { [child |-> "patient_profiles", col |-> "id", parent |-> "profiles"],
    [child |-> "nurse_profiles", col |-> "id", parent |-> "profiles"],
    [child |-> "nurse_service_areas", col |-> "nurse_id", parent |-> "nurse_profiles"],
    [child |-> "nurse_slots", col |-> "nurse_id", parent |-> "nurse_profiles"],
    [child |-> "bookings", col |-> "patient_id", parent |-> "patient_profiles"],
    [child |-> "bookings", col |-> "nurse_id", parent |-> "nurse_profiles"] }

\* REFERENCES clauses: child table, referencing column, parent table.  All
\* of them are ON DELETE CASCADE.
ForeignKeys ==
  { [child |-> "patient_profiles", col |-> "id", parent |-> "profiles"],
    [child |-> "nurse_profiles", col |-> "id", parent |-> "profiles"],
    [child |-> "nurse_service_areas", col |-> "nurse_id", parent |-> "nurse_profiles"],
    [child |-> "nurse_slots", col |-> "nurse_id", parent |-> "nurse_profiles"],
    [child |-> "bookings", col |-> "patient_id", parent |-> "patient_profiles"],
    [child |-> "bookings", col |-> "nurse_id", parent |-> "nurse_profiles"],
    [child |-> "bookings", col |-> "slot_id", parent |-> "nurse_slots"] }

Ids(rows) == {r.id : r \in rows}

\* Referential integrity is checked by the engine itself, not through RLS.
ForeignKeysHold(env, t, row, d) ==
  /\ t = "profiles" => row.id \in env.users
  /\ \A fk \in ForeignKeys :
       fk.child = t =>
         \/ (fk.col = "slot_id" /\ row[fk.col] = NoSlot)
         \/ row[fk.col] \in Ids(d[fk.parent])

\* Is the row with this id referenced by a row of a child table?
Referenced(t, id, d) ==
  \E fk \in ForeignKeys :
    fk.parent = t /\ \E r \in d[fk.child] : r[fk.col] = id

\* INSERT: the policy check comes first, then CHECK constraints, then the
\* unique indexes, then the foreign keys.
InsertError(env, t, uid, row, d) ==
  IF ~PassesCheck(env, t, "INSERT", uid, row, d) THEN "rls"
  ELSE IF ~CheckConstraints(t, row) THEN "check"
  ELSE IF UniqueViolation(t, row, d[t]) THEN "unique"
  ELSE IF ~ForeignKeysHold(env, t, row, d) THEN "fk"
  ELSE "ok"

Insert(env, t, uid, row, d) ==
  LET err == InsertError(env, t, uid, row, d) IN
  [ db |-> IF err = "ok" THEN [d EXCEPT ![t] = @ \cup {row}] ELSE d,
    err |-> err,
    n |-> IF err = "ok" THEN 1 ELSE 0,
    rows |-> {} ]

\* SELECT * FROM t: the rows the SELECT policies let through.
Visible(env, t, uid, d) ==
  {r \in d[t] : PassesUsing(env, t, "SELECT", uid, r, d)}

Select(env, t, uid, d) ==
  LET rows == Visible(env, t, uid, d) IN
  [db |-> d, err |-> "ok", n |-> Cardinality(rows), rows |-> rows]

\* UPDATE t SET (columns of new) WHERE id = key [AND cond]: the statement
\* sees the rows that pass the SELECT and UPDATE policies' USING.
UpdateTargets(env, t, uid, key, d) ==
  {r \in d[t] : /\ r.id = key
                /\ PassesUsing(env, t, "SELECT", uid, r, d)
                /\ PassesUsing(env, t, "UPDATE", uid, r, d)}

\* The row after SET: the assigned columns replaced, the others kept.
Assign(old, set) ==
  [c \in DOMAIN old |-> IF c \in DOMAIN set THEN set[c] ELSE old[c]]

UpdateError(env, t, uid, old, new, d) ==
  IF ~PassesCheck(env, t, "UPDATE", uid, new, d) THEN "rls"
  ELSE IF ~CheckConstraints(t, new) THEN "check"
  ELSE IF UniqueViolation(t, new, d[t] \ {old}) THEN "unique"
  ELSE IF ~ForeignKeysHold(env, t, new, d) THEN "fk"
  ELSE IF new.id # old.id /\ Referenced(t, old.id, d) THEN "fk"
  ELSE "ok"

Update(env, t, uid, key, set, d) ==
  LET targets == UpdateTargets(env, t, uid, key, d) IN
  IF targets = {}
  THEN [db |-> d, err |-> "ok", n |-> 0, rows |-> {}]
  ELSE LET old == CHOOSE r \in targets : TRUE
           new == Assign(old, set)
           err == UpdateError(env, t, uid, old, new, d)
       IN [ db |-> IF err = "ok"
                   THEN [d EXCEPT ![t] = (@ \ {old}) \cup {new}]
                   ELSE d,
            err |-> err,
            n |-> IF err = "ok" THEN 1 ELSE 0,
            rows |-> {} ]

\* ON DELETE CASCADE: the rows of every child table that reference one of
\* the deleted ids go too, and so on down the references.
RECURSIVE Cascade(_, _, _)
Cascade(d, t, ids) ==
  IF ids = {} THEN d
  ELSE LET fks == {fk \in ForeignKeys : fk.parent = t}
           RECURSIVE Down(_, _)
           Down(dd, todo) ==
             IF todo = {} THEN dd
             ELSE LET fk == CHOOSE f \in todo : TRUE
                      gone == {r \in dd[fk.child] : r[fk.col] \in ids}
                      cut == [dd EXCEPT ![fk.child] = @ \ gone]
                  IN Down(Cascade(cut, fk.child, Ids(gone)), todo \ {fk})
       IN Down(d, fks)

\* DELETE FROM t WHERE id = key.
DeleteTargets(env, t, uid, key, d) ==
  {r \in d[t] : /\ r.id = key
                /\ PassesUsing(env, t, "SELECT", uid, r, d)
                /\ PassesUsing(env, t, "DELETE", uid, r, d)}

Delete(env, t, uid, key, d) ==
  LET targets == DeleteTargets(env, t, uid, key, d) IN
  [ db |-> Cascade([d EXCEPT ![t] = @ \ targets], t, Ids(targets)),
    err |-> "ok",
    n |-> Cardinality(targets),
    rows |-> {} ]

----------------------------------------------------------------------------
(* The migration script, statement by statement.  st is the schema public: *)
(* [tables, rls, policies, db].                                            *)

CurrentTables == {[name |-> t, def |-> "current"] : t \in SchemaTables}

\* DO block 1: DROP POLICY for every row of pg_policies of schema public.
DropAllPolicies(st) == [st EXCEPT !.policies = {}]

\* The script without its DROP TABLE statements.
DropTables_None(st) == st

\* DROP TABLE IF EXISTS ... CASCADE for the seven tables: the table goes with
\* its rows, its policies and its row level security flag.
DropTables(st) ==
  [ tables |-> {t \in st.tables : t.name \notin SchemaTables},
    rls |-> st.rls \ SchemaTables,
    policies |-> {p \in st.policies : p.tbl \notin SchemaTables},
    db |-> NoRows ]

\* CREATE TABLE IF NOT EXISTS: a table that is still there is left as it is.
CreateTables(st) ==
  [st EXCEPT !.tables =
     @ \cup {t \in CurrentTables : \A x \in st.tables : x.name # t.name}]

\* DO block 2: ENABLE ROW LEVEL SECURITY on every table of schema public.
EnableRlsOnAll(st) == [st EXCEPT !.rls = EnableRls(st.tables)]

\* CREATE POLICY fails when the table already has a policy of that name.
CreatePoliciesFails(st) ==
  \E p \in PolicyDefs : \E x \in st.policies : x.name = p.name /\ x.tbl = p.tbl
CreatePolicies(st) == [st EXCEPT !.policies = @ \cup PolicyDefs]

ProfileRow(id, role, now) == [id |-> id, role |-> role, created_at |-> now]
PatientProfileRow(id, gender, now) ==
  [id |-> id, gender |-> gender, created_at |-> now]
NurseProfileRow(id, qualification, now) ==
  [id |-> id, qualification |-> qualification, created_at |-> now]

SeedProfiles(now) ==
  {ProfileRow(TestPatient, "patient", now), ProfileRow(TestNurse, "nurse", now)}
SeedPatientProfile(now) == PatientProfileRow(TestPatient, "male", now)
SeedNurseProfile(now) == NurseProfileRow(TestNurse, "BSc Nursing", now)

\* INSERT ... ON CONFLICT (id) DO NOTHING: a row whose id is taken is skipped.
InsertOrSkip(rows, new) ==
  rows \cup {r \in new : \A x \in rows : x.id # r.id}

\* DO block 3.  profiles.id references auth.users(id): the block raises when
\* a seed identity is not a row of auth.users.
SeedFails(users) == ~({TestPatient, TestNurse} \subseteq users)
Seed(st, now) ==
  [st EXCEPT !.db =
     [@ EXCEPT
        !["profiles"] = InsertOrSkip(@, SeedProfiles(now)),
        !["patient_profiles"] = InsertOrSkip(@, {SeedPatientProfile(now)}),
        !["nurse_profiles"] = InsertOrSkip(@, {SeedNurseProfile(now)})]]

BeforeSeed(st) ==
  CreatePolicies(EnableRlsOnAll(CreateTables(DropTables(DropAllPolicies(st)))))

\* The script runs as one transaction: a statement that raises rolls all of
\* it back.
MigrationFails(st, users) ==
  \/ CreatePoliciesFails(EnableRlsOnAll(CreateTables(DropTables(DropAllPolicies(st)))))
  \/ SeedFails(users)

Migration(st, users, now) ==
  IF MigrationFails(st, users) THEN st ELSE Seed(BeforeSeed(st), now)

Schema == [tables |-> tables, rls |-> rls, policies |-> policies, db |-> db]

EmptySchema == [tables |-> {}, rls |-> {}, policies |-> {}, db |-> NoRows]

NoStatement ==
  [cmd |-> "NONE", tbl |-> "", uid |-> "", key |-> "", row |-> [id |-> ""],
   err |-> "ok", n |-> 0, rows |-> {}, cascaded |-> 0]

NoAttempts == [u \in Users |-> [pc |-> "idle", slot |-> NoSlot]]

\* About before it is mounted: useState's initial stats, no subscription, no
\* fetchStats call in flight.
NoAbout ==
  [mounted |-> FALSE, caller |-> "", subscribed |-> FALSE, pending |-> 0,
   stats |-> [nurseCount |-> 0, patientCount |-> 0],
   fetches |-> [f \in 1..MaxFetches |-> [pc |-> "free", nurseCount |-> 0]]]

\* App's initial state (language 'en', menu closed), rendered, and no mouse
\* button held.
NoNav ==
  [isMenuOpen |-> FALSE, language |-> "en", rendered |-> FALSE,
   listening |-> FALSE, down |-> "none", wasOpen |-> FALSE,
   rerendered |-> FALSE, event |-> "none", section |-> "none"]

\* The database right after the script has been applied to an empty schema
\* with every identity registered.
InitMigrated ==
  LET st == Migration(EmptySchema, Users, 0) IN
  /\ authUsers = Users
  /\ tables = st.tables
  /\ rls = st.rls
  /\ policies = st.policies
  /\ db = st.db
  /\ clock = 1
  /\ last = NoStatement
  /\ attempt = NoAttempts
  /\ about = NoAbout
  /\ nav = NoNav

----------------------------------------------------------------------------
(* Statements *)

TableExists(t) == [name |-> t, def |-> "current"] \in tables

RECURSIVE RowCount(_, _)
RowCount(d, ts) ==
  IF ts = {} THEN 0
  ELSE LET t == CHOOSE x \in ts : TRUE
       IN Cardinality(d[t]) + RowCount(d, ts \ {t})

\* What the last statement was and what came of it: the caller observes the
\* error (or none), the row count and the rows returned; cascaded counts the
\* rows of other tables a DELETE took with it.
Outcome(res, cmd, t, uid, key, row, d) ==
  [cmd |-> cmd, tbl |-> t, uid |-> uid, key |-> key, row |-> row,
   err |-> res.err, n |-> res.n, rows |-> res.rows,
   cascaded |-> IF cmd = "DELETE"
                THEN RowCount(d, SchemaTables) - RowCount(res.db, SchemaTables) - res.n
                ELSE 0]

\* A write that reaches rows of profiles is announced on the channel of a
\* subscribed About component.
Broadcast(a, res, cmd, t) ==
  IF a.subscribed /\ t = "profiles" /\ cmd # "SELECT" /\ res.err = "ok" /\ res.n > 0
  THEN [a EXCEPT !.pending = a.pending + 1]
  ELSE a

\* One statement: the database moves to the statement's result.
Statement(res, cmd, t, uid, key, row) ==
  /\ TableExists(t)
  /\ db' = res.db
  /\ last' = Outcome(res, cmd, t, uid, key, row, db)
  /\ about' = Broadcast(about, res, cmd, t)
  /\ UNCHANGED <<authUsers, tables, rls, policies, clock, attempt, nav>>

InsertProfile(uid, id, role) ==
  LET row == ProfileRow(id, role, clock) IN
  Statement(Insert(Env, "profiles", uid, row, db),
            "INSERT", "profiles", uid, id, row)

UpdateProfile(uid, key, id, role) ==
  LET set == [id |-> id, role |-> role] IN
  Statement(Update(Env, "profiles", uid, key, set, db),
            "UPDATE", "profiles", uid, key, set)

SelectProfiles(uid) ==
  Statement(Select(Env, "profiles", uid, db),
            "SELECT", "profiles", uid, uid, [id |-> uid])

\* The table has no DELETE policy: a delete by an authenticated identity
\* finds no row.  The service role (and the cascade from auth.users) does.
DeleteProfile(uid, key) ==
  Statement(Delete(Env, "profiles", uid, key, db),
            "DELETE", "profiles", uid, key, [id |-> key])

InsertPatientProfile(uid, id, gender) ==
  LET row == PatientProfileRow(id, gender, clock) IN
  Statement(Insert(Env, "patient_profiles", uid, row, db),
            "INSERT", "patient_profiles", uid, id, row)

UpdatePatientProfile(uid, key, id, gender) ==
  LET set == [id |-> id, gender |-> gender] IN
  Statement(Update(Env, "patient_profiles", uid, key, set, db),
            "UPDATE", "patient_profiles", uid, key, set)

SelectPatientProfiles(uid) ==
  Statement(Select(Env, "patient_profiles", uid, db),
            "SELECT", "patient_profiles", uid, uid, [id |-> uid])

InsertNurseProfile(uid, id, qualification) ==
  LET row == NurseProfileRow(id, qualification, clock) IN
  Statement(Insert(Env, "nurse_profiles", uid, row, db),
            "INSERT", "nurse_profiles", uid, id, row)

\* gen_random_uuid(): an id no row of the table has (the smallest free one
\* of a pool of max ids).
FreshId(rows, max) ==
  CHOOSE i \in 1..max : i \notin Ids(rows) /\ \A j \in 1..(i - 1) : j \in Ids(rows)

SlotRow(id, nurse_id, start_time, end_time, status, now) ==
  [id |-> id, nurse_id |-> nurse_id, start_time |-> start_time,
   end_time |-> end_time, status |-> status, created_at |-> now]

AreaRow(id, nurse_id, pincode, now) ==
  [id |-> id, nurse_id |-> nurse_id, pincode |-> pincode, is_active |-> TRUE,
   created_at |-> now]

InsertSlot(uid, nurse_id, start_time, end_time, status) ==
  /\ Cardinality(db["nurse_slots"]) < MaxSlots
  /\ LET row == SlotRow(FreshId(db["nurse_slots"], MaxSlots), nurse_id,
                        start_time, end_time, status, clock)
     IN Statement(Insert(Env, "nurse_slots", uid, row, db),
                  "INSERT", "nurse_slots", uid, row.id, row)

\* UPDATE nurse_slots SET <columns of set> WHERE id = key.
UpdateSlot(uid, key, set) ==
  Statement(Update(Env, "nurse_slots", uid, key, set, db),
            "UPDATE", "nurse_slots", uid, key, set)

DeleteSlot(uid, key) ==
  Statement(Delete(Env, "nurse_slots", uid, key, db),
            "DELETE", "nurse_slots", uid, key, [id |-> key])

SelectSlots(uid) ==
  Statement(Select(Env, "nurse_slots", uid, db),
            "SELECT", "nurse_slots", uid, NoSlot, [id |-> NoSlot])

InsertArea(uid, nurse_id, pincode) ==
  /\ Cardinality(db["nurse_service_areas"]) < MaxAreas
  /\ LET row == AreaRow(FreshId(db["nurse_service_areas"], MaxAreas), nurse_id,
                        pincode, clock)
     IN Statement(Insert(Env, "nurse_service_areas", uid, row, db),
                  "INSERT", "nurse_service_areas", uid, row.id, row)

UpdateArea(uid, key, set) ==
  Statement(Update(Env, "nurse_service_areas", uid, key, set, db),
            "UPDATE", "nurse_service_areas", uid, key, set)

DeleteArea(uid, key) ==
  Statement(Delete(Env, "nurse_service_areas", uid, key, db),
            "DELETE", "nurse_service_areas", uid, key, [id |-> key])

SelectAreas(uid) ==
  Statement(Select(Env, "nurse_service_areas", uid, db),
            "SELECT", "nurse_service_areas", uid, NoSlot, [id |-> NoSlot])

BookingRow(id, patient_id, nurse_id, slot_id, status, now) ==
  [id |-> id, patient_id |-> patient_id, nurse_id |-> nurse_id,
   slot_id |-> slot_id, status |-> status, created_at |-> now]

InsertBooking(uid, patient_id, nurse_id, slot_id, status) ==
  /\ Cardinality(db["bookings"]) < MaxBookings
  /\ LET row == BookingRow(FreshId(db["bookings"], MaxBookings), patient_id,
                           nurse_id, slot_id, status, clock)
     IN Statement(Insert(Env, "bookings", uid, row, db),
                  "INSERT", "bookings", uid, row.id, row)

UpdateBooking(uid, key, set) ==
  Statement(Update(Env, "bookings", uid, key, set, db),
            "UPDATE", "bookings", uid, key, set)

SelectBookings(uid) ==
  Statement(Select(Env, "bookings", uid, db),
            "SELECT", "bookings", uid, NoSlot, [id |-> NoSlot])

----------------------------------------------------------------------------
(* The identity tier: profiles and its two extensions.  No statement on    *)
(* another table writes these three, so the other tables stay empty here.  *)

ProfileActors == {TestPatient, OtherUser}

NextProfiles ==
  \/ \E uid \in ProfileActors, id \in ProfileActors, role \in Roles :
       InsertProfile(uid, id, role)
  \/ \E uid \in ProfileActors, key \in ProfileActors, id \in ProfileActors,
        role \in {"nurse", "admin"} :
       UpdateProfile(uid, key, id, role)
  \/ \E uid \in ProfileActors : SelectProfiles(uid)
  \/ \E uid \in {OtherUser, ServiceRole}, key \in ProfileActors : DeleteProfile(uid, key)
  \/ \E uid \in ProfileActors, id \in ProfileActors :
       InsertPatientProfile(uid, id, "male")
  \/ \E uid \in ProfileActors, key \in ProfileActors, id \in ProfileActors :
       UpdatePatientProfile(uid, key, id, "female")
  \/ \E uid \in ProfileActors : SelectPatientProfiles(uid)
  \/ \E uid \in ProfileActors, id \in ProfileActors : InsertNurseProfile(uid, id, "GNM")

SpecProfiles == InitMigrated /\ [][NextProfiles]_vars

----------------------------------------------------------------------------
(* The nurse-owned tables: nurse_service_areas and nurse_slots.  A second  *)
(* nurse signs up; every identity tries to write both tables.              *)

\* Times of day in seconds since midnight: 09:00, 10:00, 10:30.
NineOClock == 9 * OneHour
TenOClock == 10 * OneHour
HalfPastTen == 10 * OneHour + OneHour \div 2

Nurses == {TestNurse, OtherUser}

NextSlots ==
  \/ InsertProfile(OtherUser, OtherUser, "nurse")
  \/ InsertNurseProfile(OtherUser, OtherUser, "GNM")
  \/ \E uid \in Users, nurse_id \in Nurses, end_time \in {TenOClock, HalfPastTen} :
       InsertSlot(uid, nurse_id, NineOClock, end_time, "available")
  \/ InsertSlot(TestNurse, TestNurse, NineOClock, NineOClock, "available")
  \/ \E uid \in Users, key \in 1..MaxSlots : UpdateSlot(uid, key, [status |-> "booked"])
  \/ \E key \in 1..MaxSlots : UpdateSlot(TestNurse, key, [status |-> "open"])
  \/ \E uid \in Nurses, key \in 1..MaxSlots :
       UpdateSlot(uid, key, [end_time |-> HalfPastTen])
  \/ \E uid \in Nurses, key \in 1..MaxSlots, nurse_id \in Nurses :
       UpdateSlot(uid, key, [nurse_id |-> nurse_id])
  \/ \E uid \in Users, key \in 1..MaxSlots : DeleteSlot(uid, key)
  \/ \E uid \in Users : SelectSlots(uid)
  \/ \E uid \in Users, nurse_id \in Nurses : InsertArea(uid, nurse_id, "600001")
  \/ \E uid \in Users, key \in 1..MaxAreas : UpdateArea(uid, key, [nurse_id |-> OtherUser])
  \/ \E uid \in Users, key \in 1..MaxAreas : DeleteArea(uid, key)
  \/ \E uid \in Users : SelectAreas(uid)

SpecSlots == InitMigrated /\ [][NextSlots]_vars

----------------------------------------------------------------------------
(* Bookings.  The seeded patient and nurse are the usual parties; a third  *)
(* identity signs up in either role and may add a patient extension.       *)

Patients == {TestPatient, OtherUser}

NextBookings ==
  \/ \E role \in Roles : InsertProfile(OtherUser, OtherUser, role)
  \/ InsertPatientProfile(OtherUser, OtherUser, "male")
  \/ InsertSlot(TestNurse, TestNurse, NineOClock, TenOClock, "available")
  \/ \E uid \in Users, patient_id \in Patients, slot_id \in 0..MaxSlots :
       InsertBooking(uid, patient_id, TestNurse, slot_id, "pending")
  \/ \E uid \in Users, key \in 1..MaxBookings :
       UpdateBooking(uid, key, [status |-> "confirmed"])
  \/ \E uid \in Users, key \in 1..MaxBookings, patient_id \in Patients :
       UpdateBooking(uid, key, [patient_id |-> patient_id])
  \/ \E uid \in Users, key \in 1..MaxBookings, nurse_id \in Nurses :
       UpdateBooking(uid, key, [nurse_id |-> nurse_id])
  \/ \E uid \in Users : SelectBookings(uid)

SpecBookings == InitMigrated /\ [][NextBookings]_vars

----------------------------------------------------------------------------
(* Deleting a profile.  The third identity signs up with both extensions,  *)
(* nurses publish areas and slots, patients book, and a profiles row is    *)
(* deleted by the service role (an authenticated identity has no DELETE    *)
(* policy to delete through).                                              *)

NextCascade ==
  \/ InsertProfile(OtherUser, OtherUser, "patient")
  \/ InsertPatientProfile(OtherUser, OtherUser, "male")
  \/ InsertNurseProfile(OtherUser, OtherUser, "GNM")
  \/ \E uid \in Nurses : InsertArea(uid, uid, "600001")
  \/ \E uid \in Nurses : InsertSlot(uid, uid, NineOClock, TenOClock, "available")
  \/ \E uid \in Patients, nurse_id \in Nurses, slot_id \in 0..MaxSlots :
       InsertBooking(uid, uid, nurse_id, slot_id, "pending")
  \/ \E uid \in {ServiceRole, TestPatient}, key \in Users : DeleteProfile(uid, key)

SpecCascade == InitMigrated /\ [][NextCascade]_vars

----------------------------------------------------------------------------
(* Booking a slot.  A booking attempt is the two statements of the booking *)
(* path, issued by the patient: the conditional update of the slot from    *)
(* 'available' to 'booked', then the bookings insert, in one transaction.  *)
(* Patients can also insert into bookings directly.                        *)

MaxRaceBookings == 2

\* UPDATE nurse_slots SET status = 'booked'
\*   WHERE id = key AND status = 'available'.
ClaimSlot(env, uid, key, d) ==
  IF \E r \in d["nurse_slots"] : r.id = key /\ r.status = "available"
  THEN Update(env, "nurse_slots", uid, key, [status |-> "booked"], d)
  ELSE [db |-> d, err |-> "ok", n |-> 0, rows |-> {}]

\* The patient picks a slot it sees as available.
BeginBooking(uid, key) ==
  /\ attempt[uid].pc = "idle"
  /\ \E r \in Visible(Env, "nurse_slots", uid, db) :
       r.id = key /\ r.status = "available"
  /\ attempt' = [attempt EXCEPT ![uid] = [pc |-> "claim", slot |-> key]]
  /\ UNCHANGED <<authUsers, tables, rls, policies, db, clock, last, about, nav>>

\* The conditional update: the attempt goes on only if it changed the row.
CasSlot(uid) ==
  /\ attempt[uid].pc = "claim"
  /\ LET key == attempt[uid].slot
         res == ClaimSlot(Env, uid, key, db)
     IN /\ db' = res.db
        /\ last' = Outcome(res, "UPDATE", "nurse_slots", uid, key,
                           [status |-> "booked"], db)
        /\ attempt' = [attempt EXCEPT
                         ![uid].pc = IF res.n = 1 THEN "insert" ELSE "rejected"]
  /\ UNCHANGED <<authUsers, tables, rls, policies, clock, about, nav>>

\* The insert that ends the transaction; if it raises, the transaction rolls
\* back and the slot is 'available' again.
InsertAttempt(uid, nurse_id) ==
  /\ attempt[uid].pc = "insert"
  /\ Cardinality(db["bookings"]) < MaxRaceBookings
  /\ LET key == attempt[uid].slot
         row == BookingRow(FreshId(db["bookings"], MaxRaceBookings), uid,
                           nurse_id, key, "pending", clock)
         res == Insert(Env, "bookings", uid, row, db)
         back == [db EXCEPT !["nurse_slots"] =
                    {IF r.id = key THEN [r EXCEPT !.status = "available"] ELSE r :
                       r \in @}]
     IN /\ db' = IF res.err = "ok" THEN res.db ELSE back
        /\ last' = Outcome(res, "INSERT", "bookings", uid, row.id, row, db)
        /\ attempt' = [attempt EXCEPT
                         ![uid].pc = IF res.err = "ok" THEN "booked" ELSE "rejected"]
  /\ UNCHANGED <<authUsers, tables, rls, policies, clock, about, nav>>

\* INSERT INTO bookings with no statement on the slot before it.
InsertBookingDirect(uid, nurse_id, slot_id) ==
  /\ Cardinality(db["bookings"]) < MaxRaceBookings
  /\ LET row == BookingRow(FreshId(db["bookings"], MaxRaceBookings), uid,
                           nurse_id, slot_id, "pending", clock)
     IN Statement(Insert(Env, "bookings", uid, row, db),
                  "INSERT", "bookings", uid, row.id, row)

NextRace ==
  \/ InsertProfile(OtherUser, OtherUser, "patient")
  \/ InsertPatientProfile(OtherUser, OtherUser, "male")
  \/ InsertNurseProfile(OtherUser, OtherUser, "GNM")
  \/ \E uid \in Nurses : InsertSlot(uid, uid, NineOClock, TenOClock, "available")
  \/ \E uid \in Patients, key \in 1..MaxSlots : BeginBooking(uid, key)
  \/ \E uid \in Patients : CasSlot(uid)
  \/ \E uid \in Patients : InsertAttempt(uid, TestNurse)
  \/ \E uid \in Patients, slot_id \in 1..MaxSlots :
       InsertBookingDirect(uid, TestNurse, slot_id)

SpecRace == InitMigrated /\ [][NextRace]_vars

----------------------------------------------------------------------------
(* Applying the script.  It starts from any earlier state of schema public: *)
(* nothing, an older profiles table, a table the script does not know,     *)
(* with or without policies and row level security, and with or without    *)
(* the seed identities registered.                                         *)

EarlierTables ==
  {[name |-> "profiles", def |-> "legacy"], [name |-> "audit_log", def |-> "legacy"]}

EarlierPolicies ==
  { [name |-> "Users can view their own profile", tbl |-> "profiles", cmd |-> "SELECT"],
    [name |-> "Auditors can read", tbl |-> "audit_log", cmd |-> "SELECT"] }

InitEarlier ==
  /\ authUsers \in {{}, {TestPatient, TestNurse}, Users}
  /\ tables \in SUBSET EarlierTables
  /\ rls \in SUBSET {t.name : t \in tables}
  /\ policies \in SUBSET {p \in EarlierPolicies : p.tbl \in {t.name : t \in tables}}
  /\ db \in {NoRows} \cup
            {[NoRows EXCEPT !["profiles"] = {ProfileRow(OtherUser, "patient", 0)}] :
               x \in {t \in tables : t.name = "profiles"}}
  /\ clock = 1
  /\ last = NoStatement
  /\ attempt = NoAttempts
  /\ about = NoAbout
  /\ nav = NoNav

\* One run of the script, as one transaction started at time clock.  For the
\* script, last.n counts the successful runs in a row.
ApplyMigration ==
  /\ clock < MaxClock + 1
  /\ LET st == Migration(Schema, authUsers, clock)
         failed == MigrationFails(Schema, authUsers)
     IN /\ tables' = st.tables
        /\ rls' = st.rls
        /\ policies' = st.policies
        /\ db' = st.db
        /\ last' = [NoStatement EXCEPT
                      !.cmd = "MIGRATE",
                      !.uid = ServiceRole,
                      !.err = IF failed THEN "fk" ELSE "ok",
                      !.n = IF failed THEN 0
                            ELSE IF last.cmd = "MIGRATE" THEN last.n + 1 ELSE 1]
  /\ clock' = clock + 1
  /\ UNCHANGED <<authUsers, attempt, about, nav>>

\* An identity registers with the identity provider.
SignUp(uid) ==
  /\ uid \notin authUsers
  /\ authUsers' = authUsers \cup {uid}
  /\ last' = [NoStatement EXCEPT !.cmd = "SIGNUP", !.uid = uid]
  /\ UNCHANGED <<tables, rls, policies, db, clock, attempt, about, nav>>

NextMigration ==
  \/ ApplyMigration
  \/ \E uid \in Users : SignUp(uid)

SpecMigration == InitEarlier /\ [][NextMigration]_vars

----------------------------------------------------------------------------
(* The About component.  It is mounted for a signed-in identity, counts    *)
(* the nurse and patient profiles that identity may read, and counts again *)
(* on every change announced for profiles.  Each fetchStats call awaits    *)
(* two queries in turn; calls started at different times run side by side. *)

Callers == {TestPatient, OtherUser}

\* supabase.from('profiles').select('*', {count: 'exact', head: true})
\*   .eq('role', role): the number of rows of that role the caller may read.
CountProfiles(uid, role) ==
  Cardinality({r \in Select(Env, "profiles", uid, db).rows : r.role = role})

FreeFetches(a) == {f \in 1..MaxFetches : a.fetches[f].pc = "free"}

InFlight(a) == (1..MaxFetches) \ FreeFetches(a)

\* fetchStats() is called: it issues the nurse count query and awaits it.
fetchStats(a) ==
  LET f == CHOOSE x \in FreeFetches(a) : \A y \in FreeFetches(a) : x <= y
  IN [a EXCEPT !.fetches[f] = [pc |-> "nurse", nurseCount |-> 0]]

\* The effect of the first render: fetchStats(), then the subscription.
Mount(uid) ==
  /\ ~about.mounted
  /\ FreeFetches(about) = 1..MaxFetches
  /\ about' = fetchStats([NoAbout EXCEPT !.mounted = TRUE, !.caller = uid,
                                         !.subscribed = TRUE])
  /\ UNCHANGED <<authUsers, tables, rls, policies, db, clock, last, attempt, nav>>

\* The effect's cleanup: subscription.unsubscribe().  Calls already under
\* way run on; their setStats finds no component.
Unmount ==
  /\ about.mounted
  /\ about' = [about EXCEPT !.mounted = FALSE, !.subscribed = FALSE, !.pending = 0]
  /\ UNCHANGED <<authUsers, tables, rls, policies, db, clock, last, attempt, nav>>

\* The channel delivers a change of profiles: the callback calls fetchStats().
Notify ==
  /\ about.subscribed
  /\ about.pending > 0
  /\ FreeFetches(about) # {}
  /\ about' = fetchStats([about EXCEPT !.pending = about.pending - 1])
  /\ UNCHANGED <<authUsers, tables, rls, policies, db, clock, last, attempt, nav>>

\* The nurse count arrives; the call issues the patient count query.
NurseCountReturns(f) ==
  /\ about.fetches[f].pc = "nurse"
  /\ about' = [about EXCEPT !.fetches[f] =
                 [pc |-> "patient", nurseCount |-> CountProfiles(about.caller, "nurse")]]
  /\ UNCHANGED <<authUsers, tables, rls, policies, db, clock, last, attempt, nav>>

\* The patient count arrives; the call sets the stats and ends.
PatientCountReturns(f) ==
  /\ about.fetches[f].pc = "patient"
  /\ about' = [about EXCEPT
                 !.stats = IF about.mounted
                           THEN [nurseCount |-> about.fetches[f].nurseCount,
                                 patientCount |-> CountProfiles(about.caller, "patient")]
                           ELSE @,
                 !.fetches[f] = [pc |-> "free", nurseCount |-> 0]]
  /\ UNCHANGED <<authUsers, tables, rls, policies, db, clock, last, attempt, nav>>

\* Writes to profiles while the component lives: an identity creates its
\* profile or changes its role, the service role removes a profile.
CreateProfile(uid, role) ==
  /\ about.pending < MaxPending
  /\ InsertProfile(uid, uid, role)

ChangeRole(uid, role) ==
  /\ about.pending < MaxPending
  /\ UpdateProfile(uid, uid, uid, role)

RemoveProfile(key) ==
  /\ about.pending < MaxPending
  /\ DeleteProfile(ServiceRole, key)

NextAbout ==
  \/ \E uid \in Callers : Mount(uid)
  \/ Unmount
  \/ Notify
  \/ \E f \in 1..MaxFetches : NurseCountReturns(f)
  \/ \E f \in 1..MaxFetches : PatientCountReturns(f)
  \/ \E role \in Roles : CreateProfile(OtherUser, role)
  \/ \E uid \in Callers, role \in Roles : ChangeRole(uid, role)
  \/ \E key \in Callers : RemoveProfile(key)

SpecAbout == InitMigrated /\ [][NextAbout]_vars

----------------------------------------------------------------------------
(* Navigation.  App holds isMenuOpen and language; Navigation renders the  *)
(* toggle button and, while the menu is open, the element #mobile-menu     *)
(* with its links and language button.  A press is a mousedown followed by *)
(* a click on the same element; React may render in between.               *)

\* What a mouse event can land on: the menu toggle button, the language
\* button of the top bar, a link of the mobile menu, the mobile menu's
\* language button, the rest of the page.
Targets == {"toggle", "language", "link", "menuLanguage", "page"}

\* The sections the links scroll to.
Sections == {"home", "services", "about", "contact"}

\* The targets inside #mobile-menu: they exist while the menu is rendered.
InsideMenu == {"link", "menuLanguage"}

\* menu && !menu.contains(event.target), with the listener attached
HandlesClickOutside(n, target) ==
  n.listening /\ n.rendered /\ target \notin InsideMenu

toggleLanguage(language) == IF language = "en" THEN "ta" ELSE "en"

\* React renders Navigation with the current isMenuOpen and runs the effect:
\* the old listener is removed, a new one is added if the menu is open.
Render ==
  /\ nav.rendered # nav.isMenuOpen
  /\ nav' = [nav EXCEPT !.rendered = nav.isMenuOpen,
                        !.listening = nav.isMenuOpen,
                        !.rerendered = (nav.down # "none"),
                        !.event = "render"]
  /\ UNCHANGED <<authUsers, tables, rls, policies, db, clock, last, attempt, about>>

\* A mouse button goes down on target: the document's mousedown listener, if
\* attached, runs handleClickOutside.
MouseDown(target) ==
  /\ nav.down = "none"
  /\ target \in InsideMenu => nav.rendered
  /\ nav' = [nav EXCEPT
               !.isMenuOpen = IF HandlesClickOutside(nav, target) THEN FALSE ELSE @,
               !.down = target,
               !.wasOpen = nav.isMenuOpen /\ nav.rendered,
               !.rerendered = FALSE,
               !.event = "mousedown"]
  /\ UNCHANGED <<authUsers, tables, rls, policies, db, clock, last, attempt, about>>

\* The click that ends the press runs the target's onClick as rendered: the
\* toggle button's handler negates the isMenuOpen of its render.
Click(target) ==
  /\ target # "link"
  /\ nav.down = target
  /\ target \in InsideMenu => nav.rendered
  /\ nav' = [nav EXCEPT
               !.isMenuOpen = CASE target = "toggle" -> ~nav.rendered
                                [] target \in InsideMenu -> FALSE
                                [] OTHER -> @,
               !.language = IF target \in {"language", "menuLanguage"}
                            THEN toggleLanguage(@) ELSE @,
               !.down = "none",
               !.event = "click"]
  /\ UNCHANGED <<authUsers, tables, rls, policies, db, clock, last, attempt, about>>

\* The click that ends a press on a link of the mobile menu:
\* scrollToSection(sectionId), then closeMenu().
ClickLink(section) ==
  /\ nav.down = "link"
  /\ nav.rendered
  /\ nav' = [nav EXCEPT !.isMenuOpen = FALSE, !.section = section,
                        !.down = "none", !.event = "click"]
  /\ UNCHANGED <<authUsers, tables, rls, policies, db, clock, last, attempt, about>>

\* The button is released elsewhere, or the target is gone: no click.
Release ==
  /\ nav.down # "none"
  /\ nav' = [nav EXCEPT !.down = "none", !.event = "release"]
  /\ UNCHANGED <<authUsers, tables, rls, policies, db, clock, last, attempt, about>>

NextNavigation ==
  \/ Render
  \/ \E target \in Targets : MouseDown(target)
  \/ \E target \in Targets \ {"link"} : Click(target)
  \/ \E section \in Sections : ClickLink(section)
  \/ Release

SpecNavigation == InitMigrated /\ [][NextNavigation]_vars

----------------------------------------------------------------------------
(* Properties of the identity tier (SpecProfiles) *)

ProfileOf(id) == {p \in db["profiles"] : p.id = id}

\* C1: every patient_profiles row extends a profiles row of role 'patient',
\* every nurse_profiles row extends a profiles row of role 'nurse', and an
\* accepted nurse_profiles insert is never for an id whose role is 'patient'.
C1_ExtensionMatchesRole ==
  /\ \A r \in db["patient_profiles"] :
       \E p \in ProfileOf(r.id) : p.role = "patient"
  /\ \A r \in db["nurse_profiles"] :
       \E p \in ProfileOf(r.id) : p.role = "nurse"
  /\ (last.cmd = "INSERT" /\ last.tbl = "nurse_profiles" /\ last.err = "ok")
       => \A p \in ProfileOf(last.key) : p.role # "patient"

SelfScoped == {"profiles", "patient_profiles"}

Changed(t) == (db[t] \ db'[t]) \cup (db'[t] \ db[t])

\* C4: on profiles and patient_profiles, a select by an identity returns only
\* rows whose id is that identity, and a statement of an authenticated identity
\* inserts, replaces or removes only rows whose id is that identity.
C4_SelfScopedIsolation ==
  [][ /\ \A t \in SelfScoped : \A uid \in authUsers' :
           \A r \in Visible(Env', t, uid, db') : r.id = uid
      /\ (last'.cmd = "SELECT" /\ last'.tbl \in SelfScoped)
           => \A r \in last'.rows : r.id = last'.uid
      /\ last'.uid \in Users
           => \A t \in SelfScoped : \A r \in Changed(t) : r.id = last'.uid
    ]_vars

\* Identity B selects patient_profiles while A's row is there: B gets its own
\* row and nothing else.
C4_Witness ==
  /\ last.cmd = "SELECT" /\ last.tbl = "patient_profiles"
  /\ last.uid = OtherUser
  /\ \E r \in db["patient_profiles"] : r.id = TestPatient
  /\ \E r \in db["patient_profiles"] : r.id = OtherUser
  /\ Ids(last.rows) = {OtherUser}

----------------------------------------------------------------------------
(* Properties of the nurse-owned tables (SpecSlots) *)

Duration(row) == row.end_time - row.start_time

\* The slot an INSERT or UPDATE on nurse_slots would leave behind: the new
\* row, or the row the update reaches with its columns assigned (none when
\* the update reaches no row).
WouldBe(stmt, env, d) ==
  IF stmt.cmd = "INSERT" THEN {stmt.row}
  ELSE {Assign(r, stmt.row) :
          r \in UpdateTargets(env, "nurse_slots", stmt.uid, stmt.key, d)}

\* C5: every nurse_slots row lasts exactly 3600 seconds and ends after it
\* starts; an insert or update that would leave a slot of another duration
\* changes no row.
C5_OneHourSlots ==
  [][ /\ \A r \in db'["nurse_slots"] :
           Duration(r) = OneHour /\ r.end_time > r.start_time
      /\ ( /\ last'.tbl = "nurse_slots"
           /\ last'.cmd \in {"INSERT", "UPDATE"}
           /\ \E r \in WouldBe(last', Env, db) : Duration(r) # OneHour )
         => (last'.n = 0 /\ last'.err # "ok" /\ db' = db)
    ]_vars

\* The owning nurse inserts a 90-minute slot and the check constraint
\* rejects it.
C5_Witness ==
  /\ last.cmd = "INSERT" /\ last.tbl = "nurse_slots"
  /\ last.uid = last.row.nurse_id
  /\ Duration(last.row) = OneHour + OneHour \div 2
  /\ last.err = "check"
  /\ db["nurse_slots"] = {}

NurseOwned == {"nurse_service_areas", "nurse_slots"}

\* C8: every authenticated identity reads every row of nurse_service_areas
\* and nurse_slots; a statement of an authenticated identity inserts, replaces
\* or removes only rows whose nurse_id is that identity, before and after.
C8_NurseOwnedWrites ==
  [][ /\ \A t \in NurseOwned : \A uid \in authUsers' :
           Visible(Env', t, uid, db') = db'[t]
      /\ last'.uid \in Users
           => \A t \in NurseOwned : \A r \in Changed(t) : r.nurse_id = last'.uid
    ]_vars

\* A patient tries to mark another identity's slot booked: no row is touched.
C8_Witness ==
  /\ last.cmd = "UPDATE" /\ last.tbl = "nurse_slots"
  /\ last.uid = TestPatient
  /\ last.row = [status |-> "booked"]
  /\ last.n = 0
  /\ \E r \in db["nurse_slots"] :
       r.id = last.key /\ r.nurse_id = TestNurse /\ r.status = "available"

----------------------------------------------------------------------------
(* Properties of bookings (SpecBookings) *)

RoleOf(uid) == {p.role : p \in ProfileOf(uid)}

\* C3: an accepted bookings insert has patient_id equal to the inserting
\* identity, whose profiles row has role 'patient'; an insert by an identity
\* whose role is 'nurse' is rejected and changes nothing.
C3_OnlyPatientsCreateBookings ==
  [][ (last'.cmd = "INSERT" /\ last'.tbl = "bookings" /\ last'.uid \in Users)
        => /\ last'.err = "ok"
                => /\ last'.row.patient_id = last'.uid
                   /\ RoleOf(last'.uid) = {"patient"}
           /\ "nurse" \in RoleOf(last'.uid)
                => last'.err # "ok" /\ last'.n = 0 /\ db' = db
    ]_vars

\* An identity of role 'nurse' that does have a patient_profiles row books
\* for itself: only the policy's role subquery stands in the way.
C3_Witness ==
  /\ last.cmd = "INSERT" /\ last.tbl = "bookings"
  /\ last.row.patient_id = last.uid
  /\ RoleOf(last.uid) = {"nurse"}
  /\ last.uid \in Ids(db["patient_profiles"])
  /\ last.err = "rls"
  /\ db["bookings"] = {}

Party(uid, row) == row.patient_id = uid \/ row.nurse_id = uid

\* C9: a select of bookings returns only rows the identity is a party to; an
\* update by an authenticated identity replaces only rows it is a party to,
\* and it is still a party to the row after the update.
C9_BookingParties ==
  [][ /\ \A uid \in authUsers' :
           \A r \in Visible(Env', "bookings", uid, db') : Party(uid, r)
      /\ (last'.cmd = "SELECT" /\ last'.tbl = "bookings")
           => \A r \in last'.rows : Party(last'.uid, r)
      /\ (last'.cmd = "UPDATE" /\ last'.tbl = "bookings" /\ last'.uid \in Users)
           => \A r \in Changed("bookings") : Party(last'.uid, r)
    ]_vars

\* An identity that is neither party tries to confirm a booking and selects:
\* nothing is touched.
C9_Witness ==
  /\ last.cmd = "UPDATE" /\ last.tbl = "bookings"
  /\ last.uid = OtherUser
  /\ last.n = 0
  /\ \E r \in db["bookings"] :
       r.id = last.key /\ ~Party(OtherUser, r) /\ r.status = "pending"

\* A statement [cmd, tbl, uid, key, row] run against database d.
Run(stmt, env, d) ==
  CASE stmt.cmd = "INSERT" -> Insert(env, stmt.tbl, stmt.uid, stmt.row, d)
    [] stmt.cmd = "UPDATE" -> Update(env, stmt.tbl, stmt.uid, stmt.key, stmt.row, d)
    [] stmt.cmd = "DELETE" -> Delete(env, stmt.tbl, stmt.uid, stmt.key, d)
    [] OTHER -> Select(env, stmt.tbl, stmt.uid, d)

\* What the caller gets back: the error (or none), the row count, the rows.
Observed(res) == [err |-> res.err, n |-> res.n, rows |-> res.rows]

Stmt(cmd, t, uid, key, row) ==
  [cmd |-> cmd, tbl |-> t, uid |-> uid, key |-> key, row |-> row]

\* The selects, inserts and updates identity uid can issue against d.
Probes(uid, env, d) ==
  {Stmt("SELECT", t, uid, uid, [id |-> uid]) :
     t \in SchemaTables \ {"service_areas"}}
  \cup {Stmt("INSERT", "profiles", uid, id, ProfileRow(id, role, env.now)) :
          id \in Users, role \in Roles}
  \cup {Stmt("INSERT", "patient_profiles", uid, id, PatientProfileRow(id, "male", env.now)) :
          id \in Users}
  \cup {Stmt("INSERT", "nurse_profiles", uid, id, NurseProfileRow(id, "GNM", env.now)) :
          id \in Users}
  \cup {Stmt("INSERT", "bookings", uid, MaxBookings + 1,
             BookingRow(MaxBookings + 1, p, n, NoSlot, "pending", env.now)) :
          p \in Users, n \in Users}
  \cup {Stmt("UPDATE", "profiles", uid, key, [role |-> role]) :
          key \in Users, role \in Roles}
  \cup {Stmt("UPDATE", "profiles", uid, key, [id |-> id]) :
          key \in Users, id \in Users}
  \cup {Stmt("UPDATE", "patient_profiles", uid, key, [gender |-> "female"]) :
          key \in Users}
  \cup {Stmt("UPDATE", "patient_profiles", uid, key, [id |-> id]) :
          key \in Users, id \in Users}
  \cup {Stmt("UPDATE", "bookings", uid, key, [status |-> "confirmed"]) :
          key \in Ids(d["bookings"])}
  \cup {Stmt("UPDATE", "bookings", uid, key, [patient_id |-> p]) :
          key \in Ids(d["bookings"]), p \in Users}
  \cup {Stmt("UPDATE", "bookings", uid, key, [nurse_id |-> n]) :
          key \in Ids(d["bookings"]), n \in Users}

\* Databases d and e differ in the existence of row r of table t and in
\* nothing else.
DifferOnlyIn(d, e, t, r) ==
  \/ r \notin d[t] /\ e = [d EXCEPT ![t] = @ \cup {r}]
  \/ r \notin e[t] /\ d = [e EXCEPT ![t] = @ \cup {r}]

\* C10: when two database states differ only in the existence of a profiles or
\* patient_profiles row that identity B may not see, every select, insert and
\* update B can issue is observed the same in both.
C10_HiddenRowUnobservable ==
  [][ \A t \in SelfScoped : \A r \in Changed(t) :
        DifferOnlyIn(db, db', t, r) =>
          \A B \in Users :
            ~PassesUsing(Env, t, "SELECT", B, r, db) =>
              \A stmt \in Probes(B, Env, db) :
                Observed(Run(stmt, Env, db)) = Observed(Run(stmt, Env', db'))
    ]_vars

----------------------------------------------------------------------------
(* Properties of profile deletion (SpecCascade) *)

Without(rows, col, ids) == {r \in rows : r[col] \notin ids}

\* C7: after a profiles row is deleted, no patient_profiles, nurse_profiles,
\* nurse_service_areas, nurse_slots or bookings row that referenced it, directly
\* or through the deleted nurse's slots, remains, and every other row is as
\* it was.
C7_DeleteCascades ==
  [][ (last'.cmd = "DELETE" /\ last'.tbl = "profiles" /\ last'.n = 1) =>
        LET u == {last'.key}
            slots == {r.id : r \in {x \in db["nurse_slots"] : x.nurse_id \in u}}
        IN /\ db'["profiles"] = Without(db["profiles"], "id", u)
           /\ db'["patient_profiles"] = Without(db["patient_profiles"], "id", u)
           /\ db'["nurse_profiles"] = Without(db["nurse_profiles"], "id", u)
           /\ db'["nurse_service_areas"] =
                Without(db["nurse_service_areas"], "nurse_id", u)
           /\ db'["nurse_slots"] = Without(db["nurse_slots"], "nurse_id", u)
           /\ db'["bookings"] =
                Without(Without(Without(db["bookings"], "patient_id", u),
                                "nurse_id", u), "slot_id", slots)
    ]_vars

\* The seeded nurse's profile is deleted and takes at least three dependent
\* rows with it (extension, slot, booking); the other nurse's extension and
\* the patient's rows stay.
C7_Witness ==
  /\ last.cmd = "DELETE" /\ last.tbl = "profiles"
  /\ last.key = TestNurse /\ last.n = 1
  /\ last.cascaded >= 3
  /\ db["bookings"] = {} /\ db["nurse_slots"] = {}
  /\ OtherUser \in Ids(db["nurse_profiles"])
  /\ TestPatient \in Ids(db["patient_profiles"])

----------------------------------------------------------------------------
(* Properties of slot booking (SpecRace) *)

Attempts(key) == {u \in Users : attempt[u].pc # "idle" /\ attempt[u].slot = key}

\* C2: at most one bookings row references a slot, and once two or more
\* booking attempts for the same slot have all ended, exactly one of them has
\* succeeded.
C2_OneBookingPerSlot ==
  \A key \in 1..MaxSlots :
    /\ Cardinality({b \in db["bookings"] : b.slot_id = key}) <= 1
    /\ ( /\ Cardinality(Attempts(key)) >= 2
         /\ \A u \in Attempts(key) : attempt[u].pc \in {"booked", "rejected"} )
       => Cardinality({u \in Attempts(key) : attempt[u].pc = "booked"}) = 1

\* The two parts of C2 on their own.
C2_NoDoubleBooking ==
  \A key \in 1..MaxSlots :
    Cardinality({b \in db["bookings"] : b.slot_id = key}) <= 1
C2_SomeAttemptSucceeds ==
  \A key \in 1..MaxSlots :
    ( /\ Cardinality(Attempts(key)) >= 2
      /\ \A u \in Attempts(key) : attempt[u].pc \in {"booked", "rejected"} )
    => \E u \in Attempts(key) : attempt[u].pc = "booked"

----------------------------------------------------------------------------
(* Properties of the script (SpecMigration) *)

\* The rows of every table with the created_at column left out.
StripTimes(d) ==
  [t \in DOMAIN d |->
     {[c \in DOMAIN r \ {"created_at"} |-> r[c]] : r \in d[t]}]

AllRows(d) == UNION {d[t] : t \in DOMAIN d}

----------------------------------------------------------------------------
(* Properties of the About component (SpecAbout) *)

\* No change of profiles is waiting to be delivered and no fetchStats call is
\* under way.
Settled(a) == a.mounted /\ a.pending = 0 /\ InFlight(a) = {}

\* The counts the caller would be given now.
CurrentCounts ==
  [nurseCount |-> CountProfiles(about.caller, "nurse"),
   patientCount |-> CountProfiles(about.caller, "patient")]

\* C11: while About is mounted every delivered change notification starts a
\* fetchStats call; whenever no notification is waiting and no call is under
\* way, the displayed counts are the numbers of nurse and patient profiles
\* the caller may read; once unmounted, no call is started.
C11_StatsFollowProfiles ==
  [][ /\ (about.mounted /\ about'.mounted /\ about'.pending < about.pending)
           => Cardinality(InFlight(about')) = Cardinality(InFlight(about)) + 1
      /\ Settled(about')
           => (about.stats = CurrentCounts)'
      /\ (~about.mounted /\ ~about'.mounted)
           => InFlight(about') \subseteq InFlight(about)
    ]_vars

\* The parts of C11 about starting calls: a delivered notification starts one,
\* and none starts once unmounted.
C11_NotificationsStartFetches ==
  [][ /\ (about.mounted /\ about'.mounted /\ about'.pending < about.pending)
           => Cardinality(InFlight(about')) = Cardinality(InFlight(about)) + 1
      /\ (~about.mounted /\ ~about'.mounted)
           => InFlight(about') \subseteq InFlight(about)
    ]_vars

----------------------------------------------------------------------------
(* Properties of Navigation (SpecNavigation) *)

\* The step is the click ending a press on target.
ClickOn(target) ==
  nav.down = target /\ nav'.down = "none" /\ nav'.event = "click"

\* The step is a mousedown on target.
MouseDownOn(target) ==
  nav.down = "none" /\ nav'.down = target /\ nav'.event = "mousedown"

MenuOpen == nav.isMenuOpen /\ nav.rendered

\* C12: a press of the toggle button that began with the menu open, with a
\* render between its mousedown and its click, leaves isMenuOpen false; so
\* does a mousedown outside #mobile-menu while the menu is open, and a click
\* on a link or the language button of the mobile menu.
C12_MenuCloses ==
  [][ /\ (ClickOn("toggle") /\ nav.wasOpen /\ nav.rerendered) => ~nav'.isMenuOpen
      /\ \A target \in Targets \ InsideMenu :
           (MouseDownOn(target) /\ MenuOpen) => ~nav'.isMenuOpen
      /\ \A target \in InsideMenu : ClickOn(target) => ~nav'.isMenuOpen
    ]_vars

\* The parts of C12 other than the press of the toggle button.
C12_OutsideAndMenuItemsClose ==
  [][ /\ \A target \in Targets \ InsideMenu :
           (MouseDownOn(target) /\ MenuOpen) => ~nav'.isMenuOpen
      /\ \A target \in InsideMenu : ClickOn(target) => ~nav'.isMenuOpen
    ]_vars

====
